---- MODULE Spec2Model ----
(***************************************************************************)
(* MallardDataVault: metadata-driven Data Vault loading on a relational    *)
(* engine.  The model covers the hash view (hash_generator.py), the hub,   *)
(* link and satellite loaders with the SQL they emit (sql_templates.py),   *)
(* the current-value projection and the flow orchestrator                  *)
(* (flow_executor.py) with its run-history bookkeeping.                    *)
(*                                                                         *)
(* Relations are bags (multisets) of rows.  A statement that the engine    *)
(* rejects changes nothing and yields one (statement, error) pair.         *)
(* SHA-1 is treated as injective: a digest is represented by its input.    *)
(* Text values are sequences of one-letter strings, so that upper(),       *)
(* coalesce() and concat_ws() are computed as the engine computes them.    *)
(***************************************************************************)
EXTENDS Integers, Sequences, FiniteSets, Bags, TLC

\* ------------------------------------------------------------------ bounds
MaxRows == 2       \* rows of one source file
MaxLoadDate == 2   \* distinct load timestamps (now() or load_date_overwrite)
MaxRunId == 2      \* run ids handed to the loaders / allocated by flows
MaxSatRows == 3    \* satellite size up to which direct satellite loads are explored
MaxSatFileRows == 1  \* rows of one source file in the satellite scenarios
MaxFlowFileRows == 1 \* rows of one source file in the flow scenarios
MaxHk == 2         \* hash-key-role columns of one satellite in metadata.tables
MaxValueLen == 2   \* letters of one field value handed to the hash expression
MaxRecords == 3    \* records of one list handed to groupby
MaxRuns == 3       \* successive runs of the satellite loader
MaxTieFileRows == 2 \* rows of one source file when rows may share a key
MaxColumns == 2     \* column positions of one hub in metadata.tables
MaxHubRecords == 3  \* hub records in metadata.tables
MaxLinkFileRows == 1 \* rows of one source file in the link DDL scenarios

\* ------------------------------------------------------------- text values
NULL == <<"NULL">>

upper(s) ==
    [i \in 1..Len(s) |->
        CASE s[i] = "a" -> "A"
          [] s[i] = "b" -> "B"
          [] s[i] = "p" -> "P"
          [] s[i] = "q" -> "Q"
          [] s[i] = "x" -> "X"
          [] s[i] = "y" -> "Y"
          [] OTHER -> s[i]]

coalesce(v, d) == IF v = NULL THEN d ELSE v

RECURSIVE concat_ws(_, _)
concat_ws(sep, vals) ==
    IF vals = <<>> THEN <<>>
    ELSE IF Len(vals) = 1 THEN vals[1]
    ELSE vals[1] \o sep \o concat_ws(sep, Tail(vals))

sha1(s) == <<"sha1">> \o s

\* The hash expression without upper().
hash_fields_raw(vals) ==
    sha1(concat_ws(<<"|", "|">>, [i \in 1..Len(vals) |-> coalesce(vals[i], <<>>)]))

\* hash_fields: the value of sha1(upper(concat_ws('||', coalesce(f,'')...)))
\* for the field values vals, taken in the order given.
hash_fields(vals) ==
    sha1(upper(concat_ws(<<"|", "|">>,
                         [i \in 1..Len(vals) |-> coalesce(vals[i], <<>>)])))

\* -------------------------------------------------------------------- bags
RECURSIVE SumOver(_, _)
SumOver(B, S) ==
    IF S = {} THEN 0
    ELSE LET x == CHOOSE y \in S : TRUE IN B[x] + SumOver(B, S \ {x})

\* The bag of F(x) for x in B (a projection that keeps duplicates).
BagMap(F(_), B) ==
    LET img == {F(x) : x \in DOMAIN B}
    IN  [y \in img |-> SumOver(B, {x \in DOMAIN B : F(x) = y})]

\* SELECT DISTINCT over a bag.
Distinct(B) == SetToBag(BagToSet(B))

BagSize(B) == SumOver(B, DOMAIN B)

RECURSIVE BagsUpTo(_, _)
BagsUpTo(S, n) ==
    IF n = 0 THEN {EmptyBag}
    ELSE LET P == BagsUpTo(S, n - 1)
         IN  P \cup {b (+) SetToBag({r}) : b \in P, r \in S}

\* ---------------------------------------------------------------- metadata
\* A metadata.transitions record.  No record of the configurations below is
\* raw and none carries a transformation expression.
Tr(sf, tt, g, tf, pos, ty) ==
    [source_field |-> sf, target_table |-> tt, group_name |-> g,
     target_field |-> tf, position |-> pos, raw |-> FALSE, transfer_type |-> ty]

\* A metadata.tables record.
Tb(bn, rt, cn, ct, pos, mp) ==
    [base_name |-> bn, rel_type |-> rt, column_name |-> cn, column_type |-> ct,
     column_position |-> pos, mapping |-> mp]

\* Each configuration lists the transitions of the staging entity in the
\* order of GET_TRANSITIONS (ORDER BY source_table, target_table,
\* group_name, position).

\* Two business-key groups feeding one hub, and a link over both.
CfgKeys ==
    << Tr("id",       "hub_customer",  "customer", "id_bk",       1, "bk"),
       Tr("ref",      "hub_customer",  "referrer", "id_bk",       1, "bk"),
       Tr("customer", "link_referral", "referral", "customer_hk", 1, "ll"),
       Tr("referrer", "link_referral", "referral", "referrer_hk", 2, "ll") >>

\* A hub and a non-historized link with a hub reference and a direct key.
CfgNhl ==
    << Tr("ref",      "hub_customer", "referrer", "id_bk",       1, "bk"),
       Tr("referrer", "nhl_visit",    "visit",    "referrer_hk", 1, "ll"),
       Tr("id",       "nhl_visit",    "visit",    "id_dk",       2, "dk") >>

\* A hub and one satellite over it, in the delta or the full-extract regime.
CfgSat(regime) ==
    << Tr("product_hk", "hsat_product_details", "product_details", "product", 0, regime),
       Tr("name",       "hsat_product_details", "product_details", "name",    1, "f"),
       Tr("sku",        "hub_product",          "product",         "sku_bk",  1, "bk") >>

\* A link whose link-to-hub member names a group that no business key has.
CfgOrphan ==
    << Tr("id",       "hub_customer",  "customer", "id_bk",       1, "bk"),
       Tr("referrer", "link_referral", "referral", "referrer_hk", 1, "ll") >>

Configs == {CfgKeys, CfgNhl, CfgOrphan, CfgSat("sat_delta"), CfgSat("sat_full")}

\* A business-key group name used under two hubs, with another hub between
\* them in the order of GET_TRANSITIONS, and a link over the groups.
CfgSplit ==
    << Tr("id",       "hub_customer",  "customer", "id_bk",       1, "bk"),
       Tr("sku",      "hub_product",   "product",  "sku_bk",      1, "bk"),
       Tr("ref",      "hub_referrer",  "customer", "ref_bk",      2, "bk"),
       Tr("customer", "link_referral", "referral", "customer_hk", 1, "ll"),
       Tr("product",  "link_referral", "referral", "product_hk",  2, "ll") >>

\* An attribute group name used under two satellites, with another
\* satellite between them.
CfgSplitSat ==
    << Tr("name", "hsat_product_details", "details", "name",   1, "f"),
       Tr("id",   "hsat_product_prices",  "prices",  "id",     1, "f"),
       Tr("ref",  "hsat_product_stock",   "details", "ref",    2, "f"),
       Tr("sku",  "hub_product",          "product", "sku_bk", 1, "bk") >>

\* A hub and a non-historized link whose direct key comes before its hub
\* reference.
CfgNhlDk ==
    << Tr("ref",      "hub_customer", "referrer", "id_bk",       1, "bk"),
       Tr("id",       "nhl_visit",    "visit",    "id_dk",       1, "dk"),
       Tr("referrer", "nhl_visit",    "visit",    "referrer_hk", 2, "ll") >>

\* The configurations with link metadata in metadata.tables.
LinkConfigs == {CfgKeys, CfgNhl, CfgNhlDk}

\* metadata.tables describing the hub and the link of a configuration with
\* the same components and positions as its transitions, in the order of
\* GET_TABLES (ORDER BY rel_type, base_name, mapping, column_position).
TablesFor(trs) ==
    CASE trs = CfgKeys ->
           << Tb("customer", "hub",  "id",       "VARCHAR",  1, "bk"),
              Tb("referral", "link", "customer", "CHAR(40)", 1, "ll"),
              Tb("referral", "link", "referrer", "CHAR(40)", 2, "ll") >>
      [] trs = CfgNhl ->
           << Tb("customer", "hub", "id",       "VARCHAR",  1, "bk"),
              Tb("visit",    "nhl", "id",       "VARCHAR",  2, "dk"),
              Tb("visit",    "nhl", "referrer", "CHAR(40)", 1, "ll") >>
      [] trs = CfgNhlDk ->
           << Tb("customer", "hub", "id",       "VARCHAR",  1, "bk"),
              Tb("visit",    "nhl", "id",       "VARCHAR",  1, "dk"),
              Tb("visit",    "nhl", "referrer", "CHAR(40)", 2, "ll") >>

\* The configurations whose hash view is computed.
ViewConfigs == Configs \cup {CfgSplit, CfgSplitSat}

SatTables ==
    << Tb("product_details", "hsat", "name",    "VARCHAR", 2, "attr"),
       Tb("product_details", "hsat", "product", "CHAR(40)", 1, "hk") >>

\* str.startswith on the table names of the configurations.
StartsWith(t, p) ==
    CASE p = "hub_"  -> t \in {"hub_customer", "hub_product", "hub_referrer"}
      [] p = "link_" -> t = "link_referral"
      [] p = "nhl_"  -> t = "nhl_visit"
      [] OTHER       -> FALSE

TablesOf(trs) == {trs[i].target_table : i \in 1..Len(trs)}

\* Columns of the staging relation: the source fields read from staging.
StgFields(trs) ==
    {trs[i].source_field : i \in {j \in 1..Len(trs) :
                                    trs[j].transfer_type \in {"bk", "dk", "f"}}}

FieldValues(f) ==
    CASE f = "id"   -> {<<"a">>, <<"A">>}
      [] f = "ref"  -> {<<"a">>, <<"b">>}
      [] f = "sku"  -> {<<"p">>, <<"q">>}
      [] f = "name" -> {<<"x">>, <<"X">>, <<"y">>}

StgRows(trs) ==
    {r \in [StgFields(trs) -> UNION {FieldValues(f) : f \in StgFields(trs)}] :
        \A f \in StgFields(trs) : r[f] \in FieldValues(f)}

FileContents(trs) == BagsUpTo(StgRows(trs), MaxRows)

\* ----------------------------------------------------------------- groupby
\* '.'.join(parts)
RECURSIVE Join(_)
Join(parts) ==
    IF parts = <<>> THEN ""
    ELSE IF Len(parts) = 1 THEN parts[1]
    ELSE parts[1] \o "." \o Join(Tail(parts))

\* The key function of groupby: the key values of the record joined by '.'.
KeyOf(r, keys) ==
    IF Len(keys) = 1 THEN r[keys[1]]
    ELSE IF Len(keys) = 2 THEN r[keys[1]] \o "." \o r[keys[2]]
    ELSE Join([i \in 1..Len(keys) |-> r[keys[i]]])

\* Length of the longest prefix of list whose records all have key k.
RECURSIVE RunLen(_, _, _)
RunLen(list, keys, k) ==
    IF list = <<>> \/ KeyOf(Head(list), keys) # k THEN 0
    ELSE 1 + RunLen(Tail(list), keys, k)

\* itertools.groupby: one (key, run) pair per run of consecutive equal keys.
RECURSIVE ItGroupby(_, _)
ItGroupby(list, keys) ==
    IF list = <<>> THEN <<>>
    ELSE LET k == KeyOf(Head(list), keys)
             n == RunLen(list, keys, k)
         IN  <<[k |-> k, l |-> SubSeq(list, 1, n)]>>
             \o ItGroupby(SubSeq(list, n + 1, Len(list)), keys)

\* The dict comprehension: a key seen again keeps its first position and
\* takes the later value.
RECURSIVE DictOf(_, _)
DictOf(pairs, acc) ==
    IF pairs = <<>> THEN acc
    ELSE LET p == Head(pairs)
             at == {i \in 1..Len(acc) : acc[i].k = p.k}
         IN  DictOf(Tail(pairs),
                    IF at = {} THEN Append(acc, p)
                    ELSE [i \in 1..Len(acc) |-> IF i \in at THEN p ELSE acc[i]])

groupby(record_list, keys) == DictOf(ItGroupby(record_list, keys), <<>>)

DictHas(d, k) == \E i \in 1..Len(d) : d[i].k = k
DictGet(d, k) == d[CHOOSE i \in 1..Len(d) : d[i].k = k].l

\* str.split("."), on the names that occur: every name is the '.'-join of
\* one or two of the dot-free words below, in one way only.
Words ==
    {"hub_customer", "hub_product", "link_referral", "nhl_visit",
     "hsat_product_details", "customer", "referrer", "referral", "visit",
     "product_details", "product", "hsat", "lsat", "orders", "prices", "stock",
     "link", "nhl"}

SplitPairs ==
    {<<w, <<w>>>> : w \in Words} \cup {<<v \o "." \o w, <<v, w>>>> : v, w \in Words}

Split(s) == (CHOOSE p \in SplitPairs : p[1] = s)[2]

\* ------------------------------------------------------------------- state
VARIABLES
    transitions,  \* metadata.transitions of the staging entity (sorted)
    tables,       \* metadata.tables (sorted as GET_TABLES returns it)
    stg,          \* the staging relation: bag of rows
    hashvw,       \* the hash view over staging: its definition, if created
    dv,           \* dv.<table>: bag of rows, per target table
    cv,           \* TRUE when the current-value view of the satellite exists
    runinfo,      \* metadata.runinfo: sequence of run-history records
    flow,         \* the execute_flow call: position, locals, returned value
    last          \* the latest direct call of a component, and what it returned

vars == <<transitions, tables, stg, hashvw, dv, cv, runinfo, flow, last>>

RecordSources == {"TEST"}

\* Statements of one operation, numbered in issue order; 0 is the metadata
\* query (get_transitions, get_tables) that precedes them.  An operation
\* is run with the set of its statements that the engine fails.
Stmts == 0..2
Downs == {{}} \cup {{i} : i \in Stmts}

\* ---------------------------------------------------------------- hash view
\* compute_hash_view up to the CREATE OR REPLACE VIEW text: the hash
\* columns (name, hashed source fields) followed by '*' over the cte fields.
\* raises: a link-to-hub member names a group that is no business-key group.
HashViewSql(trs) ==
    LET bk == SelectSeq(trs, LAMBDA r : r.transfer_type = "bk")
        lk == SelectSeq(trs, LAMBDA r : r.transfer_type \in {"ll", "dk"})
        ff == SelectSeq(trs, LAMBDA r : r.transfer_type = "f")
        hub_hash_groups  == groupby(bk, <<"group_name">>)
        link_hash_groups == groupby(lk, <<"group_name">>)
        sat_hash_groups  == groupby(ff, <<"group_name">>)
        Src(g) == [i \in 1..Len(g) |-> g[i].source_field]
        RECURSIVE KeySourceNames(_)
        KeySourceNames(ks) ==
            IF ks = <<>> THEN <<>>
            ELSE (IF Head(ks).transfer_type = "ll"
                  THEN Src(DictGet(hub_hash_groups, Head(ks).source_field))
                  ELSE <<Head(ks).source_field>>) \o KeySourceNames(Tail(ks))
        missing == \E i \in 1..Len(lk) :
                      /\ lk[i].transfer_type = "ll"
                      /\ ~DictHas(hub_hash_groups, lk[i].source_field)
        hubcols == [i \in 1..Len(hub_hash_groups) |->
                      [name   |-> hub_hash_groups[i].k \o "_hk",
                       fields |-> Src(hub_hash_groups[i].l)]]
        linkcols == [i \in 1..Len(link_hash_groups) |->
                      [name   |-> link_hash_groups[i].k \o "_hk",
                       fields |-> KeySourceNames(link_hash_groups[i].l)]]
        satcols == [i \in 1..Len(sat_hash_groups) |->
                      [name   |-> sat_hash_groups[i].k \o "_hashdiff",
                       fields |-> Src(sat_hash_groups[i].l)]]
    IN  IF missing THEN [raises |-> TRUE, exists |-> FALSE, cols |-> <<>>, cte |-> {}]
        ELSE [raises |-> FALSE, exists |-> TRUE,
              cols |-> hubcols \o linkcols \o satcols,
              cte  |-> {trs[i].source_field : i \in {j \in 1..Len(trs) :
                          /\ ~trs[j].raw
                          /\ trs[j].transfer_type \notin {"ll", "sat_delta", "sat_full"}}}]

NoView == [exists |-> FALSE, cols |-> <<>>, cte |-> {}]

\* Value of column c of the hash-view row computed from staging row r.
ViewCol(hv, r, c) ==
    IF \E i \in 1..Len(hv.cols) : hv.cols[i].name = c
    THEN LET h == hv.cols[CHOOSE i \in 1..Len(hv.cols) : hv.cols[i].name = c]
         IN  hash_fields([i \in 1..Len(h.fields) |-> r[h.fields[i]]])
    ELSE r[c]

\* A statement over the view binds only if the view exists and has the column.
ViewHas(hv, c) ==
    hv.exists /\ (c \in hv.cte \/ \E i \in 1..Len(hv.cols) : hv.cols[i].name = c)

\* ------------------------------------------------------------------ engine
BagFilter(B, P(_)) == [x \in {y \in DOMAIN B : P(y)} |-> B[x]]

\* CREATE_HUB / CREATE_LINK: <base>_hk CHAR(40) NOT NULL PRIMARY KEY.
PrimaryKeyOkNone(B) == TRUE
PrimaryKeyOk(B) ==
    \A r \in DOMAIN B : B[r] = 1 /\ \A q \in DOMAIN B : q.hk = r.hk => q = r

\* execute_sql_safely on an INSERT ... SELECT into a keyed table: the rows
\* are appended, or the statement is rejected as a whole.
ExecInsertKeyed(table, rows, bound, up) ==
    IF up /\ bound /\ PrimaryKeyOk(table (+) rows)
    THEN [ok |-> TRUE,  rel |-> table (+) rows]
    ELSE [ok |-> FALSE, rel |-> table]

\* An insert that replaces the contents of the table by the selected rows.
ExecInsertReplace(table, rows, bound, up) ==
    IF up /\ bound
    THEN [ok |-> TRUE,  rel |-> rows]
    ELSE [ok |-> FALSE, rel |-> table]

\* The same for a satellite (no key constraint).
ExecInsert(table, rows, bound, up) ==
    IF up /\ bound
    THEN [ok |-> TRUE,  rel |-> table (+) rows]
    ELSE [ok |-> FALSE, rel |-> table]

\* ------------------------------------------------------------- hub loader
\* The rows INSERT_HUB selects for one hub group: DISTINCT (hash key,
\* business-key fields) of the hash-view rows whose hash key is not in the
\* hub yet, with load date, record source and run id.
INSERT_HUB(hub, hv, S, group_name, fields, c) ==
    LET hk(r) == ViewCol(hv, r, group_name \o "_hk")
        NotInHub(r) == \A h \in DOMAIN hub : h.hk # hk(r)
        Sub(r) == <<hk(r), [i \in 1..Len(fields) |->
                               ViewCol(hv, r, fields[i].source_field)]>>
        Row(s) == [hk |-> s[1], load_dts |-> c.load_date,
                   record_source |-> c.record_source, run_id |-> c.run_id,
                   cols |-> s[2]]
    IN  BagMap(Row, Distinct(BagMap(Sub, BagFilter(S, NotInHub))))

RECURSIVE HubLoop(_, _, _, _, _)
HubLoop(groups, i, d, nerr, c) ==
    IF i > Len(groups) THEN [dv |-> d, nerr |-> nerr]
    ELSE LET hub_group  == Split(groups[i].k)
             hub_name   == hub_group[1]
             group_name == hub_group[2]
             fields     == groups[i].l
             bound == /\ ViewHas(c.hv, group_name \o "_hk")
                      /\ \A j \in 1..Len(fields) : ViewHas(c.hv, fields[j].source_field)
             x == ExecInsertKeyed(d[hub_name],
                                  INSERT_HUB(d[hub_name], c.hv, c.stg, group_name, fields, c),
                                  bound, i \notin c.down)
         IN  HubLoop(groups, i + 1, [d EXCEPT ![hub_name] = x.rel],
                     nerr + (IF x.ok THEN 0 ELSE 1), c)

\* DVHubManager.load_related_hubs.  c: the call's hash view, staging rows,
\* run_id, record_source, load date and the statements the engine fails.
load_related_hubs(trs, d, c) ==
    IF 0 \in c.down THEN [raised |-> TRUE, dv |-> d, nerr |-> 0]
    ELSE LET records == SelectSeq(trs, LAMBDA r : StartsWith(r.target_table, "hub_"))
             bk_per_group == groupby(records, <<"target_table", "group_name">>)
             out == HubLoop(bk_per_group, 1, d, 0, c)
         IN  [raised |-> FALSE, dv |-> out.dv, nerr |-> out.nerr]

\* ------------------------------------------------------------ link loader
LinkSrc(f) == f.source_field \o (IF f.transfer_type = "ll" THEN "_hk" ELSE "")

\* INSERT_LINK without the LEFT JOIN ... IS NULL exclusion of existing keys.
INSERT_LINK_all(link, hv, S, group_name, fields, c) ==
    LET hk(r) == ViewCol(hv, r, group_name \o "_hk")
        Sub(r) == <<hk(r), [i \in 1..Len(fields) |-> ViewCol(hv, r, LinkSrc(fields[i]))]>>
        Row(s) == [hk |-> s[1], load_dts |-> c.load_date,
                   record_source |-> c.record_source, run_id |-> c.run_id,
                   cols |-> s[2]]
    IN  BagMap(Row, Distinct(BagMap(Sub, S)))

\* The rows INSERT_LINK selects for one link group.
INSERT_LINK(link, hv, S, group_name, fields, c) ==
    LET hk(r) == ViewCol(hv, r, group_name \o "_hk")
        NotInLink(r) == \A l \in DOMAIN link : l.hk # hk(r)
        Sub(r) == <<hk(r), [i \in 1..Len(fields) |-> ViewCol(hv, r, LinkSrc(fields[i]))]>>
        Row(s) == [hk |-> s[1], load_dts |-> c.load_date,
                   record_source |-> c.record_source, run_id |-> c.run_id,
                   cols |-> s[2]]
    IN  BagMap(Row, Distinct(BagMap(Sub, BagFilter(S, NotInLink))))

RECURSIVE LinkLoop(_, _, _, _, _)
LinkLoop(groups, i, d, nerr, c) ==
    IF i > Len(groups) THEN [dv |-> d, nerr |-> nerr]
    ELSE LET link_group == Split(groups[i].k)
             link_name  == link_group[1]
             group_name == link_group[2]
             fields     == groups[i].l
             bound == /\ ViewHas(c.hv, group_name \o "_hk")
                      /\ \A j \in 1..Len(fields) : ViewHas(c.hv, LinkSrc(fields[j]))
             x == ExecInsertKeyed(d[link_name],
                                  INSERT_LINK(d[link_name], c.hv, c.stg, group_name, fields, c),
                                  bound, i \notin c.down)
         IN  LinkLoop(groups, i + 1, [d EXCEPT ![link_name] = x.rel],
                      nerr + (IF x.ok THEN 0 ELSE 1), c)

\* load_related_links that, when a statement fails, takes back the rows the
\* run has inserted so far.
load_related_links_rollback(trs, d, c) ==
    IF 0 \in c.down THEN [raised |-> TRUE, dv |-> d, nerr |-> 0]
    ELSE LET records == SelectSeq(trs, LAMBDA r : \/ StartsWith(r.target_table, "link_")
                                                  \/ StartsWith(r.target_table, "nhl_"))
             bk_per_group == groupby(records, <<"target_table", "group_name">>)
             out == LinkLoop(bk_per_group, 1, d, 0, c)
         IN  [raised |-> FALSE, nerr |-> out.nerr,
              dv |-> IF out.nerr = 0 THEN out.dv
                     ELSE [t \in DOMAIN d |->
                             BagFilter(out.dv[t], LAMBDA r : r.run_id # c.run_id)]]

\* DVLinkManager.load_related_links
load_related_links(trs, d, c) ==
    IF 0 \in c.down THEN [raised |-> TRUE, dv |-> d, nerr |-> 0]
    ELSE LET records == SelectSeq(trs, LAMBDA r : \/ StartsWith(r.target_table, "link_")
                                                  \/ StartsWith(r.target_table, "nhl_"))
             bk_per_group == groupby(records, <<"target_table", "group_name">>)
             out == LinkLoop(bk_per_group, 1, d, 0, c)
         IN  [raised |-> FALSE, dv |-> out.dv, nerr |-> out.nerr]

\* ------------------------------------------------------------ staging load
\* ETLService.load_file_to_staging: TRUNCATE (statement 1), the staging
\* column query (0), INSERT ... FROM read_csv (2).  A failure after the
\* TRUNCATE leaves the staging relation empty.
load_file_to_staging(S, content, down) ==
    IF 1 \in down THEN [stg |-> S, nerr |-> 1]
    ELSE IF 0 \in down \/ 2 \in down THEN [stg |-> EmptyBag, nerr |-> 1]
    ELSE [stg |-> content, nerr |-> 0]

\* HashViewGenerator.compute_hash_view: get_transitions (0), then
\* CREATE OR REPLACE VIEW (1).
compute_hash_view(trs, hv, down) ==
    IF 0 \in down \/ HashViewSql(trs).raises
    THEN [raised |-> TRUE, hv |-> hv, nerr |-> 0]
    ELSE IF 1 \in down THEN [raised |-> FALSE, hv |-> hv, nerr |-> 1]
    ELSE [raised |-> FALSE,
          hv |-> [exists |-> TRUE, cols |-> HashViewSql(trs).cols,
                  cte |-> HashViewSql(trs).cte],
          nerr |-> 0]

\* -------------------------------------------------------- satellite loader
\* The versions of key k that "order by load_dts desc" may rank first: every
\* version of k with the greatest load timestamp (ties are not ordered).
LatestVersions(sat, k) ==
    {r \in DOMAIN sat : /\ r.hk = k
                        /\ \A q \in DOMAIN sat : q.hk = k => q.load_dts <= r.load_dts}

\* hashdiff_field of load_related_sats.
HashdiffField(m, fields) ==
    IF Len(fields) > 0 THEN m.group_name \o "_hashdiff" ELSE m.source_field

\* INSERT_SAT_NEW without the NOT EXISTS condition.
INSERT_SAT_NEW_all(sat, hv, S, m, fields, c) ==
    LET Sub(r) == <<ViewCol(hv, r, m.source_field),
                    ViewCol(hv, r, HashdiffField(m, fields)),
                    [i \in 1..Len(fields) |-> ViewCol(hv, r, fields[i].source_field)]>>
        Row(d) == [hk |-> d[1], load_dts |-> c.load_date, del_flag |-> FALSE,
                   hash_diff |-> d[2], record_source |-> c.record_source,
                   run_id |-> c.run_id, cols |-> d[3]]
    IN  {SetToBag({Row(Sub(r)) : r \in DOMAIN S})}

\* The row sets INSERT_SAT_NEW may select: DISTINCT (hash key, hash diff,
\* attributes) of the hash-view rows for which the version ranked first for
\* the key does not carry the same hash diff with del_flag false.
INSERT_SAT_NEW(sat, hv, S, m, fields, c) ==
    LET Sub(r) == <<ViewCol(hv, r, m.source_field),
                    ViewCol(hv, r, HashdiffField(m, fields)),
                    [i \in 1..Len(fields) |-> ViewCol(hv, r, fields[i].source_field)]>>
        D == {Sub(r) : r \in DOMAIN S}
        Hit(d, lr) == lr.hash_diff = d[2] /\ lr.hk = d[1] /\ lr.del_flag = FALSE
        Must == {d \in D : \A lr \in LatestVersions(sat, d[1]) : ~Hit(d, lr)}
        May  == {d \in D : \/ LatestVersions(sat, d[1]) = {}
                           \/ \E lr \in LatestVersions(sat, d[1]) : ~Hit(d, lr)}
        Row(d) == [hk |-> d[1], load_dts |-> c.load_date, del_flag |-> FALSE,
                   hash_diff |-> d[2], record_source |-> c.record_source,
                   run_id |-> c.run_id, cols |-> d[3]]
    IN  {SetToBag({Row(d) : d \in Must \cup X}) : X \in SUBSET (May \ Must)}

\* INSERT_SAT_DELETE without the "sat.del_flag is False" condition.
INSERT_SAT_DELETE_any(sat, hv, S, m, fields, c) ==
    LET keys == {r.hk : r \in DOMAIN sat}
        Present(k) == \E r \in DOMAIN S : ViewCol(hv, r, m.source_field) = k
        Rank1 == {f \in [keys -> DOMAIN sat] : \A k \in keys : f[k] \in LatestVersions(sat, k)}
        Row(r) == [hk |-> r.hk, load_dts |-> c.load_date, del_flag |-> TRUE,
                   hash_diff |-> r.hash_diff, record_source |-> c.record_source,
                   run_id |-> c.run_id, cols |-> r.cols]
    IN  {SetToBag({Row(f[k]) : k \in {j \in keys : ~Present(j)}}) : f \in Rank1}

\* The row sets INSERT_SAT_DELETE may select: for each key of the satellite
\* the version ranked first (rn = 1); of these, the ones with no hash-view
\* row for the key and del_flag false, copied with del_flag true.
INSERT_SAT_DELETE(sat, hv, S, m, fields, c) ==
    LET keys == {r.hk : r \in DOMAIN sat}
        Present(k) == \E r \in DOMAIN S : ViewCol(hv, r, m.source_field) = k
        Rank1 == {f \in [keys -> DOMAIN sat] : \A k \in keys : f[k] \in LatestVersions(sat, k)}
        Row(r) == [hk |-> r.hk, load_dts |-> c.load_date, del_flag |-> TRUE,
                   hash_diff |-> r.hash_diff, record_source |-> c.record_source,
                   run_id |-> c.run_id, cols |-> r.cols]
    IN  {SetToBag({Row(f[k]) : k \in {j \in keys : ~Present(j) /\ f[j].del_flag = FALSE}})
           : f \in Rank1}

\* One satellite of the loop of load_related_sats: the "new" statement
\* (statement n) and, for sat_full, the "deleted" statement (n + 1), which
\* reads the satellite as the first one left it.
SatStep(trs, m, n, d, nerr, c) ==
    LET records == SelectSeq(trs, LAMBDA r : /\ r.target_table = m.target_table
                                                 /\ r.group_name = m.group_name
                                                 /\ r.transfer_type = "f")
        bk_per_group == groupby(records, <<"target_table", "group_name">>)
        key == m.target_table \o "." \o m.group_name
        fields == IF DictHas(bk_per_group, key) THEN DictGet(bk_per_group, key) ELSE <<>>
        sat_name == m.target_table
        bound_new == /\ ViewHas(c.hv, m.source_field)
                     /\ ViewHas(c.hv, HashdiffField(m, fields))
                     /\ \A j \in 1..Len(fields) : ViewHas(c.hv, fields[j].source_field)
        bound_del == /\ ViewHas(c.hv, m.source_field)
                     /\ ViewHas(c.hv, HashdiffField(m, fields))
        AfterNew ==
            IF bound_new
            THEN {ExecInsert(d[sat_name], rows, TRUE, n \notin c.down)
                    : rows \in INSERT_SAT_NEW(d[sat_name], c.hv, c.stg, m, fields, c)}
            ELSE {ExecInsert(d[sat_name], EmptyBag, FALSE, n \notin c.down)}
        AfterDel(x) ==
            IF bound_del
            THEN {ExecInsert(x.rel, rows, TRUE, (n + 1) \notin c.down)
                    : rows \in INSERT_SAT_DELETE(x.rel, c.hv, c.stg, m, fields, c)}
            ELSE {ExecInsert(x.rel, EmptyBag, FALSE, (n + 1) \notin c.down)}
        E(x) == IF x.ok THEN 0 ELSE 1
    IN  IF m.transfer_type = "sat_full"
        THEN UNION {{[dv |-> [d EXCEPT ![sat_name] = y.rel], nerr |-> nerr + E(x) + E(y)]
                       : y \in AfterDel(x)} : x \in AfterNew}
        ELSE {[dv |-> [d EXCEPT ![sat_name] = x.rel], nerr |-> nerr + E(x)] : x \in AfterNew}

RECURSIVE SatLoop(_, _, _, _, _, _, _)
SatLoop(trs, sat_load, i, n, d, nerr, c) ==
    IF i > Len(sat_load) THEN {[dv |-> d, nerr |-> nerr]}
    ELSE UNION {SatLoop(trs, sat_load, i + 1,
                        n + (IF sat_load[i].transfer_type = "sat_full" THEN 2 ELSE 1),
                        o.dv, o.nerr, c)
                  : o \in SatStep(trs, sat_load[i], n, d, nerr, c)}

\* DVSatelliteManager.load_related_sats: the set of possible outcomes.
load_related_sats(trs, d, c) ==
    IF 0 \in c.down THEN {[raised |-> TRUE, dv |-> d, nerr |-> 0]}
    ELSE LET sat_load == SelectSeq(trs, LAMBDA r :
                                      r.transfer_type \in {"sat_delta", "sat_full"})
         IN  {[raised |-> FALSE, dv |-> o.dv, nerr |-> o.nerr]
                : o \in SatLoop(trs, sat_load, 1, 1, d, 0, c)}

\* ------------------------------------------------------------ current view
NoCv == [exists |-> FALSE, table |-> "", hub_key |-> "", fields |-> <<>>]

\* CREATE_CURRENT_VIEW restricted to the versions with del_flag false.
CREATE_CURRENT_VIEW_live(sat) ==
    LET live == BagFilter(sat, LAMBDA r : r.del_flag = FALSE)
        keys == {r.hk : r \in DOMAIN live}
        Rank1 == {f \in [keys -> DOMAIN live] : \A k \in keys : f[k] \in LatestVersions(live, k)}
    IN  {SetToBag({f[k] : k \in keys}) : f \in Rank1}

\* The results a read of the current-value view may return: per hash key
\* the version ranked first by load_dts desc (row_number() = 1).
CREATE_CURRENT_VIEW(sat) ==
    LET keys == {r.hk : r \in DOMAIN sat}
        Rank1 == {f \in [keys -> DOMAIN sat] : \A k \in keys : f[k] \in LatestVersions(sat, k)}
    IN  {SetToBag({f[k] : k \in keys}) : f \in Rank1}

RECURSIVE CvLoop(_, _, _, _, _)
CvLoop(records, i, view, nerr, down) ==
    IF i > Len(records) THEN [cv |-> view, nerr |-> nerr]
    ELSE LET sbn == Split(records[i].k)
             table_type == sbn[1]
             table_base_name == Join(Tail(sbn))
             fields == records[i].l
             hk == SelectSeq(fields, LAMBDA f : f.mapping = "hk")
             other == SelectSeq(fields, LAMBDA f : f.mapping # "hk")
             hk_list == [j \in 1..Len(hk) |-> hk[j].column_name \o "_hk"]
             field_list == [j \in 1..Len(other) |-> other[j].column_name]
             ok == Len(hk_list) = 1 /\ i \notin down
         IN  CvLoop(records, i + 1,
                    IF ok THEN [exists |-> TRUE,
                                table |-> table_type \o "_" \o table_base_name,
                                hub_key |-> hk_list[1], fields |-> field_list]
                    ELSE view,
                    nerr + (IF ok THEN 0 ELSE 1), down)

\* DVSatelliteManager.create_current_sat_from_metadata (no filter given).
create_current_sat_from_metadata(tbls, view, down) ==
    IF 0 \in down THEN [raised |-> TRUE, cv |-> view, nerr |-> 0]
    ELSE LET raw_sat_records ==
                 SelectSeq(tbls, LAMBDA r : r.rel_type = "hsat")
                 \o SelectSeq(tbls, LAMBDA r : r.rel_type = "lsat")
             records == groupby(raw_sat_records, <<"rel_type", "base_name">>)
             out == CvLoop(records, 1, view, 0, down)
         IN  [raised |-> FALSE, cv |-> out.cv, nerr |-> out.nerr]

\* ------------------------------------------------------------ satellite DDL
\* len(hk_list) != 1 raises DVEntityError before the statement is sent.
HubKeyOkAny(hk_list) == TRUE
HubKeyOk(hk_list) == Len(hk_list) = 1

\* The loop of create_sat_from_metadata over the satellite groups: statement
\* i is the CREATE TABLE IF NOT EXISTS of group i.  An error is the pair
\* (statement, message); the statement names the table.
RECURSIVE SatDdlLoop(_, _, _, _, _)
SatDdlLoop(records, i, d, errors, down) ==
    IF i > Len(records) THEN [dv |-> d, errors |-> errors]
    ELSE LET sbn == Split(records[i].k)
             table_type == sbn[1]
             table_base_name == Join(Tail(sbn))
             fields == records[i].l
             hk_list == SelectSeq(fields, LAMBDA f : f.mapping = "hk")
             name == table_type \o "_" \o table_base_name
         IN  IF ~HubKeyOk(hk_list)
             THEN SatDdlLoop(records, i + 1, d,
                             Append(errors, [table |-> name, error |-> "DVEntityError"]), down)
             ELSE IF i \in down
             THEN SatDdlLoop(records, i + 1, d,
                             Append(errors, [table |-> name, error |-> "engine"]), down)
             ELSE SatDdlLoop(records, i + 1,
                             [t \in DOMAIN d \cup {name} |->
                                 IF t \in DOMAIN d THEN d[t] ELSE EmptyBag],
                             errors, down)

\* DVSatelliteManager.create_sat_from_metadata (no filter given): the two
\* get_tables queries (statement 0), then one statement per satellite group.
create_sat_from_metadata(tbls, d, down) ==
    IF 0 \in down THEN [raised |-> TRUE, dv |-> d, errors |-> <<>>]
    ELSE LET raw_sat_records ==
                 SelectSeq(tbls, LAMBDA r : r.rel_type = "hsat")
                 \o SelectSeq(tbls, LAMBDA r : r.rel_type = "lsat")
             records == groupby(raw_sat_records, <<"rel_type", "base_name">>)
             out == SatDdlLoop(records, 1, d, <<>>, down)
         IN  [raised |-> FALSE, dv |-> out.dv, errors |-> out.errors]

\* ------------------------------------------------------- hub and link DDL
\* MetadataManager.get_tables(rel_type = ...): the records of that type, in
\* the order of GET_TABLES, in which metadata.tables is kept here.
get_tables(tbls, rel_type) == SelectSeq(tbls, LAMBDA r : r.rel_type = rel_type)

\* The columns every CREATE_HUB / CREATE_LINK statement starts with.
KeyColumns(base_name) == <<base_name \o "_hk", "load_dts", "record_source", "run_id">>

\* CREATE TABLE IF NOT EXISTS
CreateTable(d, name) ==
    [t \in DOMAIN d \cup {name} |-> IF t \in DOMAIN d THEN d[t] ELSE EmptyBag]

\* The loop of create_hub_from_metadata: statement i creates the hub of
\* group i; ddl collects the statements issued (table, column names).
RECURSIVE HubDdlLoop(_, _, _, _, _, _)
HubDdlLoop(records, i, d, ddl, nerr, down) ==
    IF i > Len(records) THEN [dv |-> d, ddl |-> ddl, nerr |-> nerr]
    ELSE LET base_name == records[i].k
             business_keys == records[i].l
             bk_list == [j \in 1..Len(business_keys) |->
                           business_keys[j].column_name
                           \o (IF Len(business_keys) > 1 THEN "_cbk" ELSE "_bk")]
             sql_str == [table |-> "hub_" \o base_name,
                         columns |-> KeyColumns(base_name) \o bk_list]
         IN  IF i \in down
             THEN HubDdlLoop(records, i + 1, d, Append(ddl, sql_str), nerr + 1, down)
             ELSE HubDdlLoop(records, i + 1, CreateTable(d, sql_str.table),
                             Append(ddl, sql_str), nerr, down)

\* DVHubManager.create_hub_from_metadata (no filter given): get_tables
\* (statement 0), then one statement per hub.
create_hub_from_metadata(tbls, d, down) ==
    IF 0 \in down THEN [raised |-> TRUE, dv |-> d, ddl |-> <<>>, nerr |-> 0]
    ELSE LET raw_records == get_tables(tbls, "hub")
             records == groupby(raw_records, <<"base_name">>)
             out == HubDdlLoop(records, 1, d, <<>>, 0, down)
         IN  [raised |-> FALSE, dv |-> out.dv, ddl |-> out.ddl, nerr |-> out.nerr]

\* The loop of create_link_from_metadata: the link-to-hub columns, then the
\* direct-key columns, each list in the order of the records.
RECURSIVE LinkDdlLoop(_, _, _, _, _, _)
LinkDdlLoop(records, i, d, ddl, nerr, down) ==
    IF i > Len(records) THEN [dv |-> d, ddl |-> ddl, nerr |-> nerr]
    ELSE LET sbn == Split(records[i].k)
             table_type == sbn[1]
             table_base_name == Join(Tail(sbn))
             fields == records[i].l
             ll == SelectSeq(fields, LAMBDA f : f.mapping = "ll")
             dk == SelectSeq(fields, LAMBDA f : f.mapping # "ll")
             hk_list == [j \in 1..Len(ll) |-> ll[j].column_name \o "_hk"]
             dk_list == [j \in 1..Len(dk) |-> dk[j].column_name \o "_dk"]
             sql_str == [table |-> table_type \o "_" \o table_base_name,
                         columns |-> KeyColumns(table_base_name) \o hk_list \o dk_list]
         IN  IF i \in down
             THEN LinkDdlLoop(records, i + 1, d, Append(ddl, sql_str), nerr + 1, down)
             ELSE LinkDdlLoop(records, i + 1, CreateTable(d, sql_str.table),
                              Append(ddl, sql_str), nerr, down)

\* DVLinkManager.create_link_from_metadata (no filter given): the two
\* get_tables queries (statement 0), then one statement per link.
create_link_from_metadata(tbls, d, down) ==
    IF 0 \in down THEN [raised |-> TRUE, dv |-> d, ddl |-> <<>>, nerr |-> 0]
    ELSE LET raw_link_records == get_tables(tbls, "link") \o get_tables(tbls, "nhl")
             records == groupby(raw_link_records, <<"rel_type", "base_name">>)
             out == LinkDdlLoop(records, 1, d, <<>>, 0, down)
         IN  [raised |-> FALSE, dv |-> out.dv, ddl |-> out.ddl, nerr |-> out.nerr]

\* ------------------------------------------------------------ direct calls
\* The components called one at a time, as the repository's tests call them.
StgTable == "src"
Files == {"f1.csv", "f2.csv"}
None == "None"

Idle == [pc |-> "idle", file_path |-> None, force_load |-> FALSE, load_date |-> 0,
         run_id |-> 0, errors |-> <<>>, trace |-> <<>>, raised |-> FALSE]

Ctx(hv, S, rid, rs, ld, down) ==
    [hv |-> hv, stg |-> S, run_id |-> rid, record_source |-> rs,
     load_date |-> ld, down |-> down]

Called(op, rid, ld, raised, nerr, deleted) ==
    [op |-> op, run_id |-> rid, load_date |-> ld, raised |-> raised,
     nerr |-> nerr, deleted |-> deleted]

\* No loader has been called since the staging relation or a view was set.
NoCall == Called("none", 0, 0, FALSE, 0, {})

\* Hash keys that have a version with del_flag true in b.
DeletedKeys(b) == {r.hk : r \in {q \in DOMAIN b : q.del_flag}}

Init ==
    /\ transitions \in Configs
    /\ tables = (IF \E i \in 1..Len(transitions) :
                       transitions[i].transfer_type \in {"sat_delta", "sat_full"}
                 THEN SatTables ELSE <<>>)
    /\ stg = EmptyBag
    /\ hashvw = NoView
    /\ dv = [t \in TablesOf(transitions) |-> EmptyBag]
    /\ cv = NoCv
    /\ runinfo = <<>>
    /\ flow = Idle
    /\ last = NoCall

LoadFileToStaging(content) ==
    /\ flow.pc = "idle"
    /\ LET out == load_file_to_staging(stg, content, {})
       IN  /\ stg' = out.stg
           /\ last' = NoCall
    /\ UNCHANGED <<transitions, tables, hashvw, dv, cv, runinfo, flow>>

\* compute_hash_view that also writes a run-history record.
ComputeHashViewLogged ==
    /\ flow.pc \in {"idle", "done"}
    /\ LET out == compute_hash_view(transitions, hashvw, {})
       IN  /\ hashvw' = out.hv
           /\ last' = NoCall
    /\ runinfo' = Append(runinfo, [source_table |-> StgTable, run_id |-> 0,
                                   source_file |-> None, status |-> "start",
                                   message |-> 0])
    /\ UNCHANGED <<transitions, tables, stg, dv, cv, flow>>

ComputeHashView ==
    /\ flow.pc \in {"idle", "done"}
    /\ LET out == compute_hash_view(transitions, hashvw, {})
       IN  /\ hashvw' = out.hv
           /\ last' = NoCall
    /\ UNCHANGED <<transitions, tables, stg, dv, cv, runinfo, flow>>

LoadRelatedHubs(rid, rs, ld) ==
    /\ flow.pc \in {"idle", "done"}
    /\ LET out == load_related_hubs(transitions, dv, Ctx(hashvw, stg, rid, rs, ld, {}))
       IN  /\ dv' = out.dv
           /\ last' = Called("hubs", rid, ld, out.raised, out.nerr, {})
    /\ UNCHANGED <<transitions, tables, stg, hashvw, cv, runinfo, flow>>

LoadRelatedLinks(rid, rs, ld) ==
    /\ flow.pc \in {"idle", "done"}
    /\ LET out == load_related_links(transitions, dv, Ctx(hashvw, stg, rid, rs, ld, {}))
       IN  /\ dv' = out.dv
           /\ last' = Called("links", rid, ld, out.raised, out.nerr, {})
    /\ UNCHANGED <<transitions, tables, stg, hashvw, cv, runinfo, flow>>

\* Rows of all satellites together (the size that bounds the exploration).
SatSize(d) == SumOver([t \in DOMAIN d |-> IF StartsWith(t, "hub_") THEN 0 ELSE BagSize(d[t])],
                      DOMAIN d)

\* The keys that received a delete version from this call, or from the calls
\* of load_related_sats that immediately preceded it.
DeletedBy(d, d2) ==
    UNION {DeletedKeys(d2[t] (-) d[t]) : t \in {u \in DOMAIN d : ~StartsWith(u, "hub_")}}

LoadRelatedSats(rid, rs, ld) ==
    /\ flow.pc \in {"idle", "done"}
    /\ SatSize(dv) < MaxSatRows
    /\ \E out \in load_related_sats(transitions, dv, Ctx(hashvw, stg, rid, rs, ld, {})) :
           /\ dv' = out.dv
           /\ last' = Called("sats", rid, ld, out.raised, out.nerr,
                             DeletedBy(dv, out.dv)
                               \cup (IF last.op = "sats" THEN last.deleted ELSE {}))
    /\ UNCHANGED <<transitions, tables, stg, hashvw, cv, runinfo, flow>>

CreateCurrentSat ==
    /\ flow.pc = "idle"
    /\ LET out == create_current_sat_from_metadata(tables, cv, {})
       IN  /\ cv' = out.cv
           /\ last' = NoCall
    /\ UNCHANGED <<transitions, tables, stg, hashvw, dv, runinfo, flow>>

\* Hub and link loads over any staging contents; run id 1 as in the tests.
NextLoad ==
    \/ \E content \in FileContents(transitions) : LoadFileToStaging(content)
    \/ ComputeHashView
    \/ \E rs \in RecordSources, ld \in 1..MaxLoadDate : LoadRelatedHubs(1, rs, ld)
    \/ \E rs \in RecordSources, ld \in 1..MaxLoadDate : LoadRelatedLinks(1, rs, ld)

SpecLoad == Init /\ [][NextLoad]_vars

\* Satellite loads and the current-value view over any staging contents.
NextSat ==
    \/ \E content \in BagsUpTo(StgRows(transitions), MaxSatFileRows) : LoadFileToStaging(content)
    \/ ComputeHashView
    \/ \E rid \in 1..MaxRunId, rs \in RecordSources, ld \in 1..MaxLoadDate :
           LoadRelatedSats(rid, rs, ld)
    \/ CreateCurrentSat

SpecSat == Init /\ [][NextSat]_vars

\* metadata.tables of one satellite: an attribute column and n columns in
\* the hash-key role, as GET_TABLES orders them (mapping, column_position).
SatColumns(rt, bn, n) ==
    <<Tb(bn, rt, "amount", "VARCHAR", 1, "attr")>>
    \o [j \in 1..n |-> Tb(bn, rt, IF j = 1 THEN "k1" ELSE "k2", "CHAR(40)", j + 1, "hk")]

SatColumnSets(rt, bn) == {<<>>} \cup {SatColumns(rt, bn, n) : n \in 0..MaxHk}

\* The metadata of up to three satellites (ORDER BY rel_type, base_name).
DdlTables ==
    {a \o b \o c : a \in SatColumnSets("hsat", "orders"),
                   b \in SatColumnSets("hsat", "prices"),
                   c \in SatColumnSets("lsat", "stock")}

\* The database with its metadata registered and no satellite created yet.
InitDdl ==
    /\ transitions = <<>>
    /\ tables \in DdlTables
    /\ stg = EmptyBag
    /\ hashvw = NoView
    /\ dv = <<>>
    /\ cv = NoCv
    /\ runinfo = <<>>
    /\ flow = Idle
    /\ last = NoCall

CreateSat(down) ==
    /\ flow.pc = "idle"
    /\ LET out == create_sat_from_metadata(tables, dv, down)
       IN  /\ dv' = out.dv
           /\ last' = [op |-> "create_sat", run_id |-> 0, load_date |-> 0,
                       raised |-> out.raised, nerr |-> Len(out.errors),
                       deleted |-> {}, errors |-> out.errors]
    /\ UNCHANGED <<transitions, tables, stg, hashvw, cv, runinfo, flow>>

\* Satellite DDL over any satellite metadata, any one statement failing.
NextDdl == \E down \in {{}} \cup {{i} : i \in 0..3} : CreateSat(down)

SpecDdl == InitDdl /\ [][NextDdl]_vars

\* The run id of the next run when run ids are handed out one after the
\* other: one above the greatest run id stored.
NextRunOf(d) ==
    LET Ids == UNION {{r.run_id : r \in DOMAIN d[t]} : t \in DOMAIN d}
    IN  IF Ids = {} THEN 1 ELSE 1 + CHOOSE n \in Ids : \A q \in Ids : q <= n

\* Successive satellite loads: staging reloaded, the hash view recomputed,
\* and loads whose run ids rise, with any load date.
NextRuns ==
    \/ \E content \in BagsUpTo(StgRows(transitions), MaxSatFileRows) : LoadFileToStaging(content)
    \/ ComputeHashView
    \/ \E rs \in RecordSources, ld \in 1..MaxLoadDate :
           /\ NextRunOf(dv) <= MaxRuns
           /\ LoadRelatedSats(NextRunOf(dv), rs, ld)

SpecRuns == Init /\ [][NextRuns]_vars

\* Hub records of metadata.tables: two hubs, columns at any position, with
\* the mapping value 'bk' or 'pk' (as in the fixtures of the tests).
HubRecords ==
    {Tb(bn, "hub", cn, "VARCHAR", pos, mp) :
        bn \in {"customer", "product"}, cn \in {"id", "ref"},
        pos \in 1..MaxColumns, mp \in {"bk", "pk"}}

\* Text order of the names of the hub records.
NameRank(t) ==
    CASE t = "bk" -> 1 [] t = "customer" -> 2 [] t = "pk" -> 3 [] t = "product" -> 4

\* r comes before q in ORDER BY rel_type, base_name, mapping,
\* column_position (the rel_type is 'hub' for both).
TablesBefore(r, q) ==
    \/ NameRank(r.base_name) < NameRank(q.base_name)
    \/ /\ r.base_name = q.base_name
       /\ \/ NameRank(r.mapping) < NameRank(q.mapping)
          \/ r.mapping = q.mapping /\ r.column_position < q.column_position

\* The contents of metadata.tables: hub records in the order of GET_TABLES;
\* a hub has no two columns with one name or one position.
HubTables ==
    {l \in UNION {[1..n -> HubRecords] : n \in 0..MaxHubRecords} :
        /\ \A i \in 1..(Len(l) - 1) : TablesBefore(l[i], l[i + 1])
        /\ \A i, j \in 1..Len(l) :
              (i # j /\ l[i].base_name = l[j].base_name)
                => /\ l[i].column_name # l[j].column_name
                   /\ l[i].column_position # l[j].column_position}

\* The database with hub metadata registered and no hub created yet.
InitHubDdl ==
    /\ transitions = <<>>
    /\ tables \in HubTables
    /\ stg = EmptyBag
    /\ hashvw = NoView
    /\ dv = <<>>
    /\ cv = NoCv
    /\ runinfo = <<>>
    /\ flow = Idle
    /\ last = NoCall

CreateHub(down) ==
    /\ flow.pc = "idle"
    /\ LET out == create_hub_from_metadata(tables, dv, down)
       IN  /\ dv' = out.dv
           /\ last' = [op |-> "create_hub", run_id |-> 0, load_date |-> 0,
                       raised |-> out.raised, nerr |-> out.nerr,
                       deleted |-> {}, ddl |-> out.ddl]
    /\ UNCHANGED <<transitions, tables, stg, hashvw, cv, runinfo, flow>>

\* Hub DDL over any hub metadata, any one statement failing.
NextHubDdl == \E down \in {{}} \cup {{i} : i \in 0..2} : CreateHub(down)

SpecHubDdl == InitHubDdl /\ [][NextHubDdl]_vars

\* The database with the metadata of a hub and a link registered, and no
\* table created yet.
InitLink ==
    /\ transitions \in LinkConfigs
    /\ tables = TablesFor(transitions)
    /\ stg = EmptyBag
    /\ hashvw = NoView
    /\ dv = <<>>
    /\ cv = NoCv
    /\ runinfo = <<>>
    /\ flow = Idle
    /\ last = NoCall

CreateLink(down) ==
    /\ flow.pc = "idle"
    /\ LET out == create_link_from_metadata(tables, dv, down)
       IN  /\ dv' = out.dv
           /\ last' = [op |-> "create_link", run_id |-> 0, load_date |-> 0,
                       raised |-> out.raised, nerr |-> out.nerr,
                       deleted |-> {}, ddl |-> out.ddl]
    /\ UNCHANGED <<transitions, tables, stg, hashvw, cv, runinfo, flow>>

\* The tables created from metadata, then loaded: the loaders are called
\* once the hub and the link of the configuration exist.
NextLink ==
    \/ \E down \in {{}, {1}} : CreateHub(down)
    \/ \E down \in {{}, {1}} : CreateLink(down)
    \/ \E content \in BagsUpTo(StgRows(transitions), MaxLinkFileRows) :
           LoadFileToStaging(content)
    \/ ComputeHashView
    \/ \E rs \in RecordSources, ld \in 1..MaxLoadDate :
           /\ TablesOf(transitions) \subseteq DOMAIN dv
           /\ LoadRelatedHubs(1, rs, ld)
    \/ \E rs \in RecordSources, ld \in 1..MaxLoadDate :
           /\ TablesOf(transitions) \subseteq DOMAIN dv
           /\ LoadRelatedLinks(1, rs, ld)

SpecLink == InitLink /\ [][NextLink]_vars

\* The hash view over any staging contents, for every configuration.
InitView ==
    /\ transitions \in ViewConfigs
    /\ tables = <<>>
    /\ stg = EmptyBag
    /\ hashvw = NoView
    /\ dv = [t \in TablesOf(transitions) |-> EmptyBag]
    /\ cv = NoCv
    /\ runinfo = <<>>
    /\ flow = Idle
    /\ last = NoCall

NextView ==
    \/ \E content \in FileContents(transitions) : LoadFileToStaging(content)
    \/ ComputeHashView

SpecView == InitView /\ [][NextView]_vars

\* The greatest load timestamp stored in any relation (0 if none).
LastLoadDate(d) ==
    LET Ds == UNION {{r.load_dts : r \in DOMAIN d[t]} : t \in DOMAIN d}
    IN  IF Ds = {} THEN 0 ELSE CHOOSE n \in Ds : \A q \in Ds : q <= n

\* Successive satellite loads at the time of the call (load_date = now()):
\* run ids and load dates rise; a source file may hold several rows for one
\* business key.
NextTies ==
    \/ \E content \in BagsUpTo(StgRows(transitions), MaxTieFileRows) : LoadFileToStaging(content)
    \/ ComputeHashView
    \/ \E rs \in RecordSources, ld \in 1..MaxLoadDate :
           /\ NextRunOf(dv) <= MaxRuns
           /\ ld > LastLoadDate(dv)
           /\ LoadRelatedSats(NextRunOf(dv), rs, ld)

SpecTies == Init /\ [][NextTies]_vars

\* ---------------------------------------------------------- pure functions
\* Field values: NULL and the texts over a letter in both cases and the
\* character of the separator.
HashValues ==
    {NULL} \cup UNION {[1..n -> {"a", "A", "|"}] : n \in 0..MaxValueLen}

\* The hash expression evaluated on a row with the two field values vals.
HashFields(vals) ==
    /\ flow.pc = "idle"
    /\ last' = [op |-> "hash_fields", vals |-> vals, out |-> hash_fields(vals)]
    /\ UNCHANGED <<transitions, tables, stg, hashvw, dv, cv, runinfo, flow>>

NextHash == \E a, b \in HashValues : HashFields(<<a, b>>)

SpecHash == Init /\ [][NextHash]_vars

\* Records with two key fields whose values may hold a '.', and the order
\* of ORDER BY on each field.
GroupRecords ==
    [type : {"hsat", "hsat.orders"}, name : {"orders.prices", "prices", "stock"},
     value : 1..2]

TextRank(t) ==
    CASE t = "hsat" -> 1 [] t = "hsat.orders" -> 2
      [] t = "orders.prices" -> 1 [] t = "prices" -> 2 [] t = "stock" -> 3

\* r comes before q, or with it, in ORDER BY type, name.
OrderedBy(r, q) ==
    \/ TextRank(r.type) < TextRank(q.type)
    \/ r.type = q.type /\ TextRank(r.name) <= TextRank(q.name)

SortedLists ==
    {l \in UNION {[1..n -> GroupRecords] : n \in 0..MaxRecords} :
        \A i \in 1..(Len(l) - 1) : OrderedBy(l[i], l[i + 1])}

Groupby(record_list, keys) ==
    /\ flow.pc = "idle"
    /\ last' = [op |-> "groupby", record_list |-> record_list, keys |-> keys,
                out |-> groupby(record_list, keys)]
    /\ UNCHANGED <<transitions, tables, stg, hashvw, dv, cv, runinfo, flow>>

NextGroupby ==
    \E l \in SortedLists, keys \in {<<"type">>, <<"type", "name">>} : Groupby(l, keys)

SpecGroupby == Init /\ [][NextGroupby]_vars

\* ------------------------------------------------------------- run history
RunInfo(source_table, run_id, file_path, status, message) ==
    [source_table |-> source_table, run_id |-> run_id, source_file |-> file_path,
     status |-> status, message |-> message]

RECURSIVE MaxRun(_)
MaxRun(ri) ==
    IF ri = <<>> THEN 0
    ELSE LET m == MaxRun(Tail(ri)) IN IF Head(ri).run_id > m THEN Head(ri).run_id ELSE m

\* GET_RUN_ID without the + 1 once a run is recorded.
get_next_run_id_same(ri) == IF ri = <<>> THEN 1 ELSE MaxRun(ri)

\* GET_RUN_ID: COALESCE(MAX(run_id), 0) + 1
get_next_run_id(ri) == MaxRun(ri) + 1

\* CHECK_INGESTION with the status condition left out.
check_previous_ingestion_any(ri, source_table, file_path, status) ==
    \E i \in 1..Len(ri) : /\ ri[i].source_file = file_path
                          /\ ri[i].source_table = source_table

\* MetadataManager.check_previous_ingestion: len(result) > 0.
check_previous_ingestion(ri, source_table, file_path, status) ==
    \E i \in 1..Len(ri) : /\ ri[i].source_file = file_path
                          /\ ri[i].source_table = source_table
                          /\ ri[i].status = status

\* MetadataManager.register_run_info (the write succeeds).
register_run_info(ri, source_table, run_id, file_path, status, message) ==
    Append(ri, RunInfo(source_table, run_id, file_path, status, message))

\* A terminal write that loses its record leaves no trace but a log line.
\* FlowExecutor._register_run_end: the message carries the error count; a
\* failing write (wfail) is logged and not raised.
register_run_end(ri, source_table, run_id, file_path, status, errors, wfail) ==
    IF wfail THEN ri
    ELSE register_run_info(ri, source_table, run_id, file_path, status, Len(errors))

\* ------------------------------------------------------------ execute_flow
StageOrder == <<"staging", "hash", "hubs", "links", "sats">>

NextStage(stage) ==
    CASE stage = "staging" -> "hash"
      [] stage = "hash"    -> "hubs"
      [] stage = "hubs"    -> "links"
      [] stage = "links"   -> "sats"

Errs(label, n) == [i \in 1..n |-> label]

\* execute_flow up to the first stage: the check for a previous ingestion
\* (statement 0), the run id (1) and the start record (2).  Calls that
\* allocate a run id are explored up to run id MaxRunId.
FlowBegin(file_path, force_load, ld, down) ==
    /\ flow.pc \in {"idle", "done"}
    /\ \/ get_next_run_id(runinfo) <= MaxRunId
       \/ /\ ~force_load /\ file_path # None
          /\ \/ 0 \in down
             \/ check_previous_ingestion(runinfo, StgTable, file_path, "success")
    /\ LET call == [Idle EXCEPT !.file_path = file_path, !.force_load = force_load,
                                !.load_date = ld]
           return(errors) == [call EXCEPT !.pc = "done", !.errors = errors,
                                          !.load_date = 0]
           run_id == get_next_run_id(runinfo)
       IN  IF ~force_load /\ file_path # None /\ 0 \in down
           THEN flow' = return(<<"Check previous ingestion">>) /\ UNCHANGED runinfo
           ELSE IF /\ ~force_load /\ file_path # None
                   /\ check_previous_ingestion(runinfo, StgTable, file_path, "success")
           THEN flow' = return(<<>>) /\ UNCHANGED runinfo
           ELSE IF 1 \in down
           THEN flow' = return(<<"Get next run ID">>) /\ UNCHANGED runinfo
           ELSE IF 2 \in down
           THEN flow' = return(<<"Register run start">>) /\ UNCHANGED runinfo
           ELSE /\ runinfo' = register_run_info(runinfo, StgTable, run_id, file_path,
                                                "start", 0)
                /\ flow' = [call EXCEPT !.run_id = run_id,
                                        !.pc = IF file_path # None THEN "staging" ELSE "hash"]
    /\ UNCHANGED <<transitions, tables, stg, hashvw, dv, cv, last>>

\* What follows a stage: an exception leaves execute_flow at once; errors end
\* the run as a failure; the last stage ends it; otherwise the next stage.
\* A call that has ended keeps its arguments and result, not its load date.
StageEnd(stage, raised, nerr, wfail) ==
    LET errors == flow.errors \o Errs(stage, nerr)
        ran == [flow EXCEPT !.trace = Append(@, stage), !.errors = errors]
        end == [ran EXCEPT !.pc = "done", !.load_date = 0]
    IN  IF raised
        THEN /\ flow' = [end EXCEPT !.raised = TRUE]
             /\ UNCHANGED runinfo
        ELSE IF errors # <<>>
        THEN /\ flow' = end
             /\ runinfo' = register_run_end(runinfo, StgTable, flow.run_id,
                                            flow.file_path, "failure", errors, wfail)
        ELSE IF stage = "sats"
        THEN /\ flow' = end
             /\ runinfo' = register_run_end(runinfo, StgTable, flow.run_id,
                                            flow.file_path, "success", errors, wfail)
        ELSE /\ flow' = [ran EXCEPT !.pc = NextStage(stage)]
             /\ UNCHANGED runinfo

FlowStaging(content, down, wfail) ==
    /\ flow.pc = "staging"
    /\ LET out == load_file_to_staging(stg, content, down)
       IN  /\ stg' = out.stg
           /\ StageEnd("staging", FALSE, out.nerr, wfail)
    /\ UNCHANGED <<transitions, tables, hashvw, dv, cv, last>>

FlowHash(down, wfail) ==
    /\ flow.pc = "hash"
    /\ LET out == compute_hash_view(transitions, hashvw, down)
       IN  /\ hashvw' = out.hv
           /\ StageEnd("hash", out.raised, out.nerr, wfail)
    /\ UNCHANGED <<transitions, tables, stg, dv, cv, last>>

FlowCtx(down) == Ctx(hashvw, stg, flow.run_id, "TEST", flow.load_date, down)

FlowHubs(down, wfail) ==
    /\ flow.pc = "hubs"
    /\ LET out == load_related_hubs(transitions, dv, FlowCtx(down))
       IN  /\ dv' = out.dv
           /\ StageEnd("hubs", out.raised, out.nerr, wfail)
    /\ UNCHANGED <<transitions, tables, stg, hashvw, cv, last>>

FlowLinks(down, wfail) ==
    /\ flow.pc = "links"
    /\ LET out == load_related_links(transitions, dv, FlowCtx(down))
       IN  /\ dv' = out.dv
           /\ StageEnd("links", out.raised, out.nerr, wfail)
    /\ UNCHANGED <<transitions, tables, stg, hashvw, cv, last>>

FlowSats(down, wfail) ==
    /\ flow.pc = "sats"
    /\ \E out \in load_related_sats(transitions, dv, FlowCtx(down)) :
           /\ dv' = out.dv
           /\ StageEnd("sats", out.raised, out.nerr, wfail)
    /\ UNCHANGED <<transitions, tables, stg, hashvw, cv, last>>

\* Flow executions one after another, each with any outcome of each statement.
Next ==
    \/ \E file_path \in Files \cup {None}, force_load \in BOOLEAN,
          ld \in 1..MaxLoadDate, down \in Downs :
           FlowBegin(file_path, force_load, ld, down)
    \/ \E content \in BagsUpTo(StgRows(transitions), MaxFlowFileRows),
          down \in Downs, wfail \in BOOLEAN : FlowStaging(content, down, wfail)
    \/ \E down \in Downs, wfail \in BOOLEAN : FlowHash(down, wfail)
    \/ \E down \in Downs, wfail \in BOOLEAN : FlowHubs(down, wfail)
    \/ \E down \in Downs, wfail \in BOOLEAN : FlowLinks(down, wfail)
    \/ \E down \in Downs, wfail \in BOOLEAN : FlowSats(down, wfail)

Spec == Init /\ [][Next]_vars

\* Flow executions and direct calls of the hash view and the loaders, one
\* after another in any order (a direct call is made between two flow
\* executions), over one file of at most one row.
NextOwn ==
    \/ \E force_load \in BOOLEAN : FlowBegin("f1.csv", force_load, 1, {})
    \/ \E content \in BagsUpTo(StgRows(transitions), MaxFlowFileRows) :
           FlowStaging(content, {}, FALSE)
    \/ \E down \in {{}, {1}} : FlowHash(down, FALSE)
    \/ \E down \in {{}, {1}} : FlowHubs(down, FALSE)
    \/ \E down \in {{}, {1}} : FlowLinks(down, FALSE)
    \/ \E down \in {{}, {1}} : FlowSats(down, FALSE)
    \/ ComputeHashView
    \/ LoadRelatedHubs(1, "TEST", MaxLoadDate)
    \/ LoadRelatedLinks(1, "TEST", MaxLoadDate)
    \/ LoadRelatedSats(1, "TEST", MaxLoadDate)

SpecOwn == Init /\ [][NextOwn]_vars

\* =============================================================== properties
\* Rows a step appends to table t, and those of them with hash key k.
Added(t) == dv'[t] (-) dv[t]
AddedFor(t, k) == BagFilter(Added(t), LAMBDA r : r.hk = k)

Versions(sat, k) == BagFilter(sat, LAMBDA r : r.hk = k)

SatMarkers(regime) ==
    {transitions[i] : i \in {j \in 1..Len(transitions) :
                               transitions[j].transfer_type = regime}}

\* Whether the hash view holds a row with hash key k for the satellite of m.
InView(m, k) == \E r \in DOMAIN stg : ViewCol(hashvw, r, m.source_field) = k

\* The attribute payloads the hash view holds for hash key k.
ViewPayloads(m, k) ==
    LET F == SelectSeq(transitions, LAMBDA r : /\ r.target_table = m.target_table
                                               /\ r.group_name = m.group_name
                                               /\ r.transfer_type = "f")
    IN  {[i \in 1..Len(F) |-> q[F[i].source_field]]
           : q \in {r \in DOMAIN stg : ViewCol(hashvw, r, m.source_field) = k}}

\* A payload with letter case and NULL / empty normalised away.
Norm(p) == [i \in 1..Len(p) |-> upper(coalesce(p[i], <<>>))]

HasRecord(file_path, statuses) ==
    \E i \in 1..Len(runinfo) : /\ runinfo[i].source_table = StgTable
                               /\ runinfo[i].source_file = file_path
                               /\ runinfo[i].status \in statuses

\* ---- C1
\* The step that begins a non-forced execute_flow with a file.
NonForcedCall == flow.pc \in {"idle", "done"} /\ ~flow'.force_load /\ flow'.file_path # None

\* The call did nothing and returned the empty list.
SkippedSilently ==
    /\ flow'.pc = "done" /\ flow'.errors = <<>> /\ flow'.trace = <<>>
    /\ UNCHANGED <<runinfo, stg, hashvw, dv, cv>>

\* C1 (as stated): a non-forced execute_flow with a source file does nothing,
\* writes no run-history record and returns the empty list if and only if a
\* success record exists for the same source entity and file.
C1_SkipIffSuccess ==
    [][NonForcedCall => (SkippedSilently <=> HasRecord(flow'.file_path, {"success"}))]_vars

\* C1 (amended): ... if and only if a success record exists for the same source
\* entity and file and the lookup of that record does not fail; when the lookup
\* fails the call still loads and writes nothing but returns that one error.
C1_SkipIffSuccessFound ==
    [][NonForcedCall =>
         /\ SkippedSilently <=> (/\ HasRecord(flow'.file_path, {"success"})
                                 /\ flow'.errors # <<"Check previous ingestion">>)
         /\ flow'.errors = <<"Check previous ingestion">> =>
                flow'.pc = "done" /\ UNCHANGED <<runinfo, stg, hashvw, dv, cv>>]_vars

\* A call was skipped for a file with a success record, while the other file
\* has only start and failure records.
C1_Witness ==
    /\ flow.pc = "done" /\ flow.run_id = 0 /\ flow.errors = <<>>
    /\ ~flow.force_load /\ flow.file_path # None
    /\ HasRecord(flow.file_path, {"success"})
    /\ \E f \in Files : HasRecord(f, {"failure"}) /\ ~HasRecord(f, {"success"})

\* ---- C2
StartAt(rid) ==
    {i \in 1..Len(runinfo) : runinfo[i].run_id = rid /\ runinfo[i].status = "start"}
TerminalAt(rid) ==
    {i \in 1..Len(runinfo) : /\ runinfo[i].run_id = rid
                             /\ runinfo[i].status \in {"success", "failure"}}

\* C2: the start record of a flow execution is written before any stage
\* statement is issued, and when the call has ended exactly one terminal record
\* with the same run id stands after it, whatever each statement's outcome.
C2_Lifecycle ==
    /\ flow.trace # <<>> => StartAt(flow.run_id) # {}
    /\ flow.pc \notin {"idle", "done"} => TerminalAt(flow.run_id) = {}
    /\ (flow.pc = "done" /\ flow.run_id # 0) =>
           /\ Cardinality(StartAt(flow.run_id)) = 1
           /\ Cardinality(TerminalAt(flow.run_id)) = 1
           /\ \A i \in StartAt(flow.run_id), j \in TerminalAt(flow.run_id) : i < j

\* ---- C3
\* C3: after any sequence of hub loads no two rows of a hub share a hash key,
\* and no row is stored twice.
C3_HubKeysUnique ==
    \A t \in {u \in DOMAIN dv : StartsWith(u, "hub_")} :
        \A r \in DOMAIN dv[t] :
            /\ dv[t][r] = 1
            /\ \A q \in DOMAIN dv[t] : q.hk = r.hk => q = r

\* A hub filled by two loads, the later one from staging rows of which one
\* key was already there.
C3_Witness ==
    /\ last.op = "hubs" /\ last.nerr = 0
    /\ BagSize(stg) = 2
    /\ \E t \in {u \in DOMAIN dv : StartsWith(u, "hub_")} :
          \E r, q \in DOMAIN dv[t] : /\ r.load_dts # q.load_dts
                                     /\ q.load_dts = last.load_date

DeltaLoadAdds(Same(_, _)) ==
    (last'.op = "sats" /\ last'.nerr = 0) =>
        \A m \in SatMarkers("sat_delta") :
            \A k \in {r.hk : r \in DOMAIN dv[m.target_table]} :
                LET vs  == Versions(dv[m.target_table], k)
                    ps  == ViewPayloads(m, k)
                    add == AddedFor(m.target_table, k)
                IN  (BagSize(vs) = 1 /\ Cardinality(ps) = 1) =>
                        LET v == CHOOSE r \in DOMAIN vs : TRUE
                            p == CHOOSE q \in ps : TRUE
                        IN  IF Same(p, v.cols) THEN BagSize(add) = 0
                            ELSE /\ BagSize(add) = 1
                                 /\ \A a \in DOMAIN add : /\ a.hash_diff # v.hash_diff
                                                          /\ a.del_flag = FALSE

C6_DeleteVersion ==
    [][(last'.op = "sats" /\ last'.nerr = 0) =>
         \A m \in SatMarkers("sat_full") :
            /\ \A k \in {r.hk : r \in DOMAIN dv[m.target_table]} :
                  LET latest == LatestVersions(dv[m.target_table], k)
                      add    == AddedFor(m.target_table, k)
                  IN  /\ (~InView(m, k) /\ \A v \in latest : ~v.del_flag) =>
                            /\ BagSize(add) = 1
                            /\ \A a \in DOMAIN add :
                                  /\ a.del_flag
                                  /\ a.run_id = last'.run_id
                                  /\ a.load_dts = last'.load_date
                                  /\ \E v \in latest : /\ a.hash_diff = v.hash_diff
                                                       /\ a.cols = v.cols
                      /\ (~InView(m, k) /\ \A v \in latest : v.del_flag) =>
                            BagSize(add) = 0
            /\ \A a \in DOMAIN Added(m.target_table) : InView(m, a.hk) => ~a.del_flag]_vars

\* The load just made appended a delete version for a key stored by an
\* earlier run, and a version for the key that is in the hash view.
C6_Witness ==
    /\ last.op = "sats" /\ last.nerr = 0
    /\ \E m \in SatMarkers("sat_full") : \E d, v, n \in DOMAIN dv[m.target_table] :
          /\ d.del_flag /\ d.run_id = last.run_id /\ d.load_dts = last.load_date
          /\ ~v.del_flag /\ v.hk = d.hk /\ v.cols = d.cols /\ v.run_id # d.run_id
          /\ ~InView(m, d.hk)
          /\ n.hk # d.hk /\ InView(m, n.hk) /\ n.run_id = last.run_id

\* ---- C7
\* C7: once a delete version has been appended for a key, a further
\* full-extract load with the key still absent from the hash view appends no
\* version for that key.
C7_DeleteOnce ==
    [][(last.op = "sats" /\ last'.op = "sats") =>
          \A t \in DOMAIN dv : \A k \in last.deleted : BagSize(AddedFor(t, k)) = 0]_vars

\* ---- C8
\* C8: every row of every hub, link and satellite relation is still there,
\* unchanged and as many times, after every step.
C8_AppendOnly ==
    [][\A t \in DOMAIN dv : \A r \in DOMAIN dv[t] :
          r \in DOMAIN dv'[t] /\ dv'[t][r] >= dv[t][r]]_vars

\* Two flow executions have loaded: the hub holds a key of each run, the
\* satellite a version of the first run and its delete version of the second.
C8_Witness ==
    /\ flow.pc = "done" /\ flow.run_id = 2
    /\ \E t \in {u \in DOMAIN dv : StartsWith(u, "hub_")} :
          \E r, q \in DOMAIN dv[t] : r.run_id = 1 /\ q.run_id = 2
    /\ \E t \in {u \in DOMAIN dv : ~StartsWith(u, "hub_")} :
          \E r, q \in DOMAIN dv[t] :
              r.run_id = 1 /\ q.run_id = 2 /\ q.hk = r.hk /\ q.del_flag

\* ---- C9
ExpectedStages(file_path) == IF file_path # None THEN StageOrder ELSE Tail(StageOrder)

IsPrefix(s, t) == Len(s) <= Len(t) /\ \A i \in 1..Len(s) : s[i] = t[i]

\* C9: the stages run in the order staging (with a file only), hash, hubs,
\* links, sats; only the last stage run has returned errors; after a stage
\* that returned errors the call ends and the run is recorded as failure.
C9_StageOrder ==
    /\ IsPrefix(flow.trace, ExpectedStages(flow.file_path))
    /\ flow.trace # <<>> =>
          \A i \in 1..Len(flow.errors) : flow.errors[i] = flow.trace[Len(flow.trace)]
    /\ (flow.trace # <<>> /\ flow.errors # <<>>) =>
          /\ flow.pc = "done"
          /\ \E i \in 1..Len(runinfo) : /\ runinfo[i].run_id = flow.run_id
                                        /\ runinfo[i].status = "failure"

\* ---- C10
\* C10: every result the current-value view may return has, for each hash key
\* of the satellite, exactly one row, and that row is a stored version of the
\* key with the greatest load timestamp, deleted or not.
C10_CurrentRows ==
    cv.exists =>
        \A res \in CREATE_CURRENT_VIEW(dv[cv.table]) :
            /\ \A r \in DOMAIN res : r \in DOMAIN dv[cv.table]
            /\ \A k \in {r.hk : r \in DOMAIN dv[cv.table]} :
                  /\ SumOver(res, {r \in DOMAIN res : r.hk = k}) = 1
                  /\ \A r \in DOMAIN res : r.hk = k =>
                        \A q \in DOMAIN dv[cv.table] : q.hk = k => q.load_dts <= r.load_dts

\* The view exists over a satellite in which one key's latest version is a
\* delete version after a live one, and another key's latest version is live.
C10_Witness ==
    /\ cv.exists
    /\ \E d, v, n \in DOMAIN dv[cv.table] :
          /\ d.del_flag /\ ~v.del_flag /\ v.hk = d.hk /\ v.load_dts < d.load_dts
          /\ ~n.del_flag /\ n.hk # d.hk
          /\ \E res \in CREATE_CURRENT_VIEW(dv[cv.table]) : d \in DOMAIN res /\ n \in DOMAIN res

\* ---- C11
\* The satellites of metadata.tables: (rel_type, base_name) pairs.
SatGroups == {<<tables[i].rel_type, tables[i].base_name>> : i \in 1..Len(tables)}
HkCount(g) ==
    Cardinality({i \in 1..Len(tables) : /\ tables[i].rel_type = g[1]
                                        /\ tables[i].base_name = g[2]
                                        /\ tables[i].mapping = "hk"})
SatName(g) == g[1] \o "_" \o g[2]
ErrorsFor(errors, t) == {i \in 1..Len(errors) : errors[i].table = t}

\* C11: a call of create_sat_from_metadata that returns creates no table for
\* a satellite whose number of hash-key-role columns is not one and returns
\* exactly one error for it; every other satellite is created by the call,
\* unless the engine fails its CREATE statement.
C11_SatNeedsOneHubKey ==
    [][(last'.op = "create_sat" /\ ~last'.raised) =>
          \A g \in SatGroups :
             IF HkCount(g) # 1
             THEN /\ SatName(g) \notin DOMAIN dv'
                  /\ Cardinality(ErrorsFor(last'.errors, SatName(g))) = 1
             ELSE \/ SatName(g) \in DOMAIN dv'
                  \/ \E i \in ErrorsFor(last'.errors, SatName(g)) :
                        last'.errors[i].error = "engine"]_vars

\* One call found a satellite without hash-key column, one with two and one
\* with one: it returned two errors and created the third.
C11_Witness ==
    /\ last.op = "create_sat" /\ ~last.raised /\ last.nerr = 2
    /\ \E g, h, k \in SatGroups :
          /\ HkCount(g) = 0 /\ HkCount(h) = 2 /\ HkCount(k) = 1
          /\ ErrorsFor(last.errors, SatName(g)) # {}
          /\ ErrorsFor(last.errors, SatName(h)) # {}
          /\ DOMAIN dv = {SatName(k)}
          /\ k = <<"lsat", "stock">>

\* ---- C12
\* What the hash expression reads of a value: upper case, NULL as empty.
NormValue(v) == upper(coalesce(v, <<>>))
HasBar(v) == v # NULL /\ \E i \in 1..Len(v) : v[i] = "|"

\* Two evaluations of the hash expression one after the other: equal inputs
\* give equal hashes, inputs that differ only in letter case give equal
\* hashes, and swapped inputs give different hashes unless Alike(a, b).
HashPair(Alike(_, _)) ==
    (last.op = "hash_fields" /\ last'.op = "hash_fields") =>
        LET a == last.vals[1]
            b == last.vals[2]
        IN  /\ last'.vals = last.vals => last'.out = last.out
            /\ (\A i \in 1..2 : upper(last'.vals[i]) = upper(last.vals[i]))
                  => last'.out = last.out
            /\ (last'.vals = <<b, a>> /\ ~Alike(a, b)) => last'.out # last.out

\* C12 (as stated): the hash of (a, b) differs from the hash of (b, a) unless
\* a = b, the hash is a function of its input, and values that differ only
\* in letter case hash identically.
C12_OrderSensitive == [][HashPair(LAMBDA a, b : a = b)]_vars

\* C12 (amended): the hash of (a, b) differs from the hash of (b, a) unless a
\* and b are equal up to letter case and NULL / empty, or one of them holds
\* the separator character '|'; the rest as stated.
C12_OrderSensitiveNormalised ==
    [][HashPair(LAMBDA a, b : NormValue(a) = NormValue(b) \/ HasBar(a) \/ HasBar(b))]_vars

\* (a, b) was hashed, for two values without '|' that differ after
\* normalisation, and its hash is not that of (b, a).
C12_Witness ==
    /\ last.op = "hash_fields"
    /\ last.vals = << <<"a", "A">>, <<"a">> >>
    /\ last.out # hash_fields(<< <<"a">>, <<"a", "A">> >>)

\* ---- C18
\* The '.'-joined key of a record, as the caller of groupby reads it.
JoinedKey(r, keys) == Join([i \in 1..Len(keys) |-> r[keys[i]]])

\* The distinct values of a sequence in first-seen order.
RECURSIVE FirstSeen(_)
FirstSeen(q) ==
    IF q = <<>> THEN <<>>
    ELSE LET f == FirstSeen(SubSeq(q, 1, Len(q) - 1))
         IN  IF \E i \in 1..Len(f) : f[i] = q[Len(q)] THEN f ELSE Append(f, q[Len(q)])

\* C18: for a list sorted by the key fields, the keys of the result are the
\* distinct '.'-joined key values in first-seen order, and the list under a
\* key is the sublist of the records with that key, in their order: every
\* record is in exactly one list, that of its own key.
C18_GroupbyPartition ==
    last.op = "groupby" =>
        LET l == last.record_list
            ks == [i \in 1..Len(l) |-> JoinedKey(l[i], last.keys)]
        IN  /\ [i \in 1..Len(last.out) |-> last.out[i].k] = FirstSeen(ks)
            /\ \A i \in 1..Len(last.out) :
                  last.out[i].l =
                      SelectSeq(l, LAMBDA r : JoinedKey(r, last.keys) = last.out[i].k)

\* ---- C13
\* C13: no call of execute_flow ends by raising, whatever statement the
\* engine fails, the metadata queries included.
C13_NoRaise == ~flow.raised

C15_NoRollback ==
    [][(/\ flow.pc \notin {"idle", "done"} /\ flow'.pc = "done"
        /\ flow'.errors # <<>> /\ ~flow'.raised
        /\ \E i \in 1..Len(runinfo') : /\ runinfo'[i].run_id = flow.run_id
                                       /\ runinfo'[i].status = "failure")
          => /\ flow.pc # "staging" => stg' = stg
             /\ flow.pc \notin {"staging", "hash"} => hashvw' = hashvw
             /\ \A t \in DOMAIN dv : \A r \in DOMAIN dv[t] :
                   r \in DOMAIN dv'[t] /\ dv'[t][r] >= dv[t][r]]_vars

\* An execution failed in the link stage: the failure is recorded, staging
\* and hash view are there, and so is a hub row of this run.
C15_Witness ==
    /\ flow.pc = "done" /\ ~flow.raised /\ flow.errors # <<>>
    /\ flow.trace = <<"staging", "hash", "hubs", "links">>
    /\ \E i \in 1..Len(runinfo) : /\ runinfo[i].run_id = flow.run_id
                                  /\ runinfo[i].status = "failure"
    /\ stg # EmptyBag /\ hashvw.exists
    /\ \E t \in {u \in DOMAIN dv : StartsWith(u, "hub_")} :
          \E r \in DOMAIN dv[t] : r.run_id = flow.run_id

\* ---- C16
\* C16: when an execution that wrote its start record has returned, an empty
\* list comes with a success record for its run id and a non-empty list
\* with a failure record for its run id.
C16_ReturnAgrees ==
    (flow.pc = "done" /\ ~flow.raised /\ flow.run_id # 0) =>
        \E i \in 1..Len(runinfo) :
            /\ runinfo[i].run_id = flow.run_id
            /\ runinfo[i].status = (IF flow.errors = <<>> THEN "success" ELSE "failure")

\* ---- C17
\* A link-to-hub record names a group that no business-key record has.
OrphanReference ==
    \E i \in 1..Len(transitions) :
        /\ transitions[i].transfer_type = "ll"
        /\ \A j \in 1..Len(transitions) :
              transitions[j].transfer_type = "bk" =>
                  transitions[j].group_name # transitions[i].source_field

\* C17: with such a record, once the hash stage has run the stage has
\* returned errors without raising, no hash view exists, the run has a
\* failure record, and no hub, link or satellite load is run.
C17_OrphanReported ==
    (OrphanReference /\ flow.trace # <<>> /\ flow.trace[Len(flow.trace)] = "hash") =>
        /\ ~flow.raised /\ flow.errors # <<>> /\ flow.pc = "done"
        /\ ~hashvw.exists
        /\ \E i \in 1..Len(runinfo) : /\ runinfo[i].run_id = flow.run_id
                                      /\ runinfo[i].status = "failure"

\* ---- C20
\* C20: a non-forced execute_flow without a source file, begun when
\* run-history holds a success record of the source entity without a source
\* file, does nothing, writes no run-history record and returns the empty list.
C20_SkipWithoutFile ==
    [][(/\ flow.pc \in {"idle", "done"} /\ ~flow'.force_load /\ flow'.file_path = None
        /\ HasRecord(None, {"success"}))
          => SkippedSilently]_vars

\* ---- C19
\* C19: a key holds two versions, A of an earlier run and B of a later run,
\* with different hash diffs and del_flag false; a load in which the hash
\* view holds A for the key, and which reports no error, appends exactly one
\* version for the key, with A's hash diff and del_flag false.
C19_RevertRecorded ==
    [][(last'.op = "sats" /\ last'.nerr = 0) =>
         \A m \in SatMarkers("sat_delta") \cup SatMarkers("sat_full") :
            \A k \in {r.hk : r \in DOMAIN dv[m.target_table]} :
               LET vs  == Versions(dv[m.target_table], k)
                   add == AddedFor(m.target_table, k)
               IN  \A v1, v2 \in DOMAIN vs :
                      (/\ BagSize(vs) = 2
                       /\ v1.run_id < v2.run_id
                       /\ ~v1.del_flag /\ ~v2.del_flag
                       /\ v1.hash_diff # v2.hash_diff
                       /\ ViewPayloads(m, k) = {v1.cols})
                         => /\ BagSize(add) = 1
                            /\ \A a \in DOMAIN add : /\ a.hash_diff = v1.hash_diff
                                                     /\ ~a.del_flag]_vars

\* ---- C29
\* The hash keys the hash view holds for hub t, over all its groups.
HubViewKeys(t) ==
    {ViewCol(hashvw, r, transitions[i].group_name \o "_hk") :
        r \in DOMAIN stg,
        i \in {j \in 1..Len(transitions) : /\ transitions[j].target_table = t
                                           /\ transitions[j].transfer_type = "bk"}}

\* C29: a hub load over an existing hash view returns no error and appends
\* exactly one row for each hash key of the view that the hub did not hold.
C29_HubLoadSucceeds ==
    [][(last'.op = "hubs" /\ hashvw.exists) =>
          /\ last'.nerr = 0
          /\ \A t \in {u \in DOMAIN dv : StartsWith(u, "hub_")} :
                \A k \in HubViewKeys(t) :
                    (\A h \in DOMAIN dv[t] : h.hk # k) => BagSize(AddedFor(t, k)) = 1]_vars

\* ---- C25
\* A load that reports no error, for a key in the hash view whose most recent
\* versions are all delete versions: at least one version with del_flag false
\* is appended for the key, and, if Shown, every result of the current-value
\* projection over the satellite then holds a row with del_flag false for it.
Reappears(Shown) ==
    (last'.op = "sats" /\ last'.nerr = 0) =>
        \A m \in SatMarkers("sat_delta") \cup SatMarkers("sat_full") :
            \A k \in {r.hk : r \in DOMAIN dv[m.target_table]} :
                (InView(m, k) /\ \A v \in LatestVersions(dv[m.target_table], k) : v.del_flag)
                  => /\ \E a \in DOMAIN AddedFor(m.target_table, k) : ~a.del_flag
                     /\ \A a \in DOMAIN AddedFor(m.target_table, k) : ~a.del_flag
                     /\ Shown =>
                          \A res \in CREATE_CURRENT_VIEW(dv'[m.target_table]) :
                             \A r \in DOMAIN res : r.hk = k => ~r.del_flag

\* C25: a key whose most recent version is a delete version and that is in
\* the hash view again receives, on the next load, a new version with
\* del_flag false, whatever its hash diff, and the current-value projection
\* then shows the key as not deleted.
C25_ReappearedKeyIsCurrent == [][Reappears(TRUE)]_vars

\* ---- C28
\* The satellite contents the load just made could have produced, over every
\* ranking of the versions tied on the greatest load timestamp.
SatOutcomes ==
    {o.dv : o \in load_related_sats(transitions, dv,
                     Ctx(hashvw, stg, last'.run_id, "TEST", last'.load_date, {}))}

\* C28: the rows a satellite load appends are determined by the satellite
\* contents and the hash view: every ranking of versions with tied load
\* timestamps leads to the same satellite contents.
C28_LoadDetermined ==
    [][(last'.op = "sats" /\ ~last'.raised) => Cardinality(SatOutcomes) = 1]_vars

\* ---- C27
\* C27: a satellite load that follows a satellite load with no step between
\* them (the hash view is unchanged), both reporting no error, appends no row.
C27_SecondLoadAppendsNothing ==
    [][(/\ last.op = "sats" /\ last.nerr = 0 /\ ~last.raised
        /\ last'.op = "sats" /\ last'.nerr = 0 /\ ~last'.raised) => dv' = dv]_vars

\* ---- C26
\* The flow execution has ended in success: every stage ran, none reported an
\* error or raised, and the success record of the run is in run-history.
EndedInSuccess ==
    /\ flow.pc = "done" /\ ~flow.raised /\ flow.errors = <<>>
    /\ flow.trace = ExpectedStages(flow.file_path)
    /\ \E i \in 1..Len(runinfo) : /\ runinfo[i].run_id = flow.run_id
                                  /\ runinfo[i].status = "success"

\* The run started from empty targets and no history: every stored row is of
\* this run, and run-history holds no record of another run for the file.
FromEmpty ==
    /\ \A t \in DOMAIN dv : \A r \in DOMAIN dv[t] : r.run_id = flow.run_id
    /\ \A i \in 1..Len(runinfo) :
          runinfo[i].source_file = flow.file_path => runinfo[i].run_id = flow.run_id

\* The hash keys the hash view holds for the satellite of marker m.
SatViewKeys(m) == {ViewCol(hashvw, r, m.source_field) : r \in DOMAIN stg}

\* C26: after a flow execution that ended in success (staging holds at most
\* one row per business key), every hash key of the hash view is in its hub;
\* in every satellite the most recent version of each key of the hash view
\* has del_flag false and the hash diff of the hash view; and if the run
\* started from empty targets, each hub and satellite holds exactly one row
\* per distinct key and run-history one start and one success record for the
\* file.
C26_TargetsReflectStaging ==
    EndedInSuccess =>
        /\ \A t \in {u \in DOMAIN dv : StartsWith(u, "hub_")} :
              \A k \in HubViewKeys(t) : \E h \in DOMAIN dv[t] : h.hk = k
        /\ \A m \in SatMarkers("sat_delta") \cup SatMarkers("sat_full") :
              \A r \in DOMAIN stg :
                 \A v \in LatestVersions(dv[m.target_table], ViewCol(hashvw, r, m.source_field)) :
                    /\ ~v.del_flag
                    /\ v.hash_diff = ViewCol(hashvw, r, m.group_name \o "_hashdiff")
        /\ FromEmpty =>
              /\ \A t \in {u \in DOMAIN dv : StartsWith(u, "hub_")} :
                    BagSize(dv[t]) = Cardinality(HubViewKeys(t))
              /\ \A m \in SatMarkers("sat_delta") \cup SatMarkers("sat_full") :
                    BagSize(dv[m.target_table]) = Cardinality(SatViewKeys(m))
              /\ \A st \in {"start", "success"} :
                    Cardinality({i \in 1..Len(runinfo) :
                                   /\ runinfo[i].source_file = flow.file_path
                                   /\ runinfo[i].status = st}) = 1

\* ---- C30
\* The transition records of transfer type ty with group name G.
GroupRecordsOf(ty, G) ==
    {j \in 1..Len(transitions) : /\ transitions[j].transfer_type = ty
                                 /\ transitions[j].group_name = G}

\* Sequence f lists the source fields of the records R, each once, by
\* ascending position.
ListsInPositionOrder(f, R) ==
    /\ Len(f) = Cardinality(R)
    /\ \E p \in [1..Len(f) -> R] :
          /\ \A a, b \in 1..Len(f) : a # b => p[a] # p[b]
          /\ \A a \in 1..Len(f) : f[a] = transitions[p[a]].source_field
          /\ \A a, b \in 1..Len(f) :
                a < b => transitions[p[a]].position <= transitions[p[b]].position

\* The hash view has exactly one expression per group name of type ty, over
\* all the records of the group in position order.
GroupsCovered(ty, suffix) ==
    \A G \in {transitions[j].group_name :
                j \in {i \in 1..Len(transitions) : transitions[i].transfer_type = ty}} :
        LET C == {i \in 1..Len(hashvw.cols) : hashvw.cols[i].name = G \o suffix}
        IN  /\ Cardinality(C) = 1
            /\ \A i \in C : ListsInPositionOrder(hashvw.cols[i].fields, GroupRecordsOf(ty, G))

\* C30: in the hash view, the hash-key expression of group name G covers
\* every business-key record with group name G, and the hash-diff expression
\* every attribute record with group name G, in position order, with exactly
\* one expression per G, also when G occurs under more than one target table.
C30_GroupCovered ==
    hashvw.exists => GroupsCovered("bk", "_hk") /\ GroupsCovered("f", "_hashdiff")

\* ---- C21
\* The source fields of the business-key group G, by ascending position.
HubGroupFields(G) ==
    LET R == GroupRecordsOf("bk", G)
    IN  CHOOSE f \in UNION {[1..n -> StgFields(transitions)] : n \in {Cardinality(R)}} :
            ListsInPositionOrder(f, R)

\* What the members ks of a link group contribute, in the order of ks: a
\* link-to-hub member the fields of the hub group it names, a direct key its
\* own source field.
RECURSIVE LinkKeyFields(_)
LinkKeyFields(ks) ==
    IF ks = <<>> THEN <<>>
    ELSE (IF Head(ks).transfer_type = "ll"
          THEN HubGroupFields(Head(ks).source_field)
          ELSE <<Head(ks).source_field>>) \o LinkKeyFields(Tail(ks))

\* C21: the hash-key expression of a link group lists, in transition-record
\* order, for each link-to-hub member the source fields of the hub
\* business-key group it names (in position order) and for each direct key
\* its own source field.
C21_LinkHashFields ==
    hashvw.exists =>
        \A L \in {transitions[j].group_name :
                    j \in {i \in 1..Len(transitions) :
                             transitions[i].transfer_type \in {"ll", "dk"}}} :
            LET ks == SelectSeq(transitions, LAMBDA r : /\ r.transfer_type \in {"ll", "dk"}
                                                        /\ r.group_name = L)
            IN  \E i \in 1..Len(hashvw.cols) :
                   /\ hashvw.cols[i].name = L \o "_hk"
                   /\ hashvw.cols[i].fields = LinkKeyFields(ks)

\* ---- C22
\* The metadata records of hub bn.
HubRecordsOf(bn) ==
    {j \in 1..Len(tables) : tables[j].rel_type = "hub" /\ tables[j].base_name = bn}

\* C22: the statement create_hub_from_metadata issues for a hub lists, after
\* the hash key, load timestamp, record source and run id, one business-key
\* column per metadata record of the hub, by ascending column_position
\* whatever the mapping values, named column_name_bk if the hub has one
\* record and column_name_cbk if it has more.
C22_HubColumns ==
    (last.op = "create_hub" /\ ~last.raised) =>
        \A bn \in {tables[j].base_name : j \in {i \in 1..Len(tables) : tables[i].rel_type = "hub"}} :
            LET R == HubRecordsOf(bn)
                suffix == IF Cardinality(R) = 1 THEN "_bk" ELSE "_cbk"
                C == {i \in 1..Len(last.ddl) : last.ddl[i].table = "hub_" \o bn}
            IN  /\ Cardinality(C) = 1
                /\ \A i \in C :
                      LET cols == last.ddl[i].columns
                      IN  /\ Len(cols) = 4 + Cardinality(R)
                          /\ SubSeq(cols, 1, 4)
                               = <<bn \o "_hk", "load_dts", "record_source", "run_id">>
                          /\ \E p \in [1..Cardinality(R) -> R] :
                                /\ \A a \in 1..Cardinality(R) :
                                      cols[4 + a] = tables[p[a]].column_name \o suffix
                                /\ \A a, b \in 1..Cardinality(R) :
                                      a < b => tables[p[a]].column_position
                                                 < tables[p[b]].column_position

\* ---- C23
\* The statements create_link_from_metadata issues for the metadata.
LinkDdl == create_link_from_metadata(tables, <<>>, {}).ddl

\* C23: every row a link load appends holds, in each component column the
\* DDL created (the _hk columns, then the _dk columns), the value of that
\* component for one row of the hash view: the positional INSERT and the
\* column order of the table agree.
C23_ValuesInTheirColumns ==
    [][(last'.op = "links" /\ ~last'.raised /\ last'.nerr = 0) =>
         \A i \in 1..Len(LinkDdl) :
            \A a \in DOMAIN Added(LinkDdl[i].table) :
               \E r \in DOMAIN stg :
                  \A n \in 1..Len(a.cols) :
                     \E j \in 1..Len(transitions) :
                        /\ transitions[j].target_table = LinkDdl[i].table
                        /\ transitions[j].target_field = LinkDdl[i].columns[4 + n]
                        /\ a.cols[n] = ViewCol(hashvw, r, LinkSrc(transitions[j]))]_vars

\* ---- C24
\* C24: no step modifies the table or transition metadata; run-history is
\* written only by a step of execute_flow (a step that leaves the flow
\* position alone, such as a direct call of compute_hash_view or of a loader,
\* writes none); the hub, link and satellite relations are modified only by
\* a loader, called directly or as a stage of the flow.
C24_Ownership ==
    [][/\ transitions' = transitions
       /\ tables' = tables
       /\ (flow' = flow => runinfo' = runinfo)
       /\ (dv' # dv =>
             \/ flow' = flow /\ last'.op \in {"hubs", "links", "sats"}
             \/ flow.pc \in {"hubs", "links", "sats"})]_vars

\* A flow execution has written its start and success records, and a direct
\* loader call has appended rows of its own load date next to rows of
\* another load date.
C24_Witness ==
    /\ flow.pc = "done"
    /\ \E i, j \in 1..Len(runinfo) : /\ runinfo[i].status = "start"
                                     /\ runinfo[j].status = "success"
    /\ last.op \in {"hubs", "links", "sats"} /\ last.nerr = 0
    /\ \E t \in DOMAIN dv : \E r, q \in DOMAIN dv[t] :
          /\ r.load_dts = last.load_date
          /\ q.load_dts # last.load_date

====
